---- MODULE Spec2Model ----
(***************************************************************************)
(* Model of summarize_variants.py: the per-record aggregators              *)
(* (update_position_entry, update_gene_entry), the per-file and per-batch  *)
(* passes, the summary table builder and the command line driver (main).   *)
(*                                                                         *)
(* Python values are encoded as follows.                                   *)
(*   str            a TLA+ string; str.format / os.path.join are string    *)
(*                  concatenations (\o), int -> str is ToString            *)
(*   list           a sequence                                             *)
(*   dict           a function whose DOMAIN is the set of keys             *)
(*   None | value   the empty sequence | the one-element sequence <<v>>    *)
(*   raise E        the name of the exception class in a field "raised"    *)
(*                  (NoError when the call returned); dicts are mutated in *)
(*                  place, so the mapping a call leaves behind when it     *)
(*                  raises is returned next to the exception               *)
(***************************************************************************)
EXTENDS Integers, Sequences, FiniteSets, TLC

\* ---------------------------------------------------------------- bounds
\* listed files
MaxFiles == 2
\* records in all listed files together
MaxRecs == 3

\* ------------------------------------------------------- module constants
GENE_NAME == "Gene.refGene"
MUTATION_TYPE == "ExonicFunc.refGene"
VARIANT_TYPE == "Func.refGene"

None == <<>>
Some(v) == <<v>>
NoError == "NoError"

\* ''.join(parts)
RECURSIVE StrJoin(_)
StrJoin(parts) ==
    IF parts = <<>> THEN "" ELSE Head(parts) \o StrJoin(Tail(parts))

\* '{}_{}'.format(record.CHROM, record.POS)
FormatPosition(record) == record.CHROM \o "_" \o ToString(record.POS)

\* '{}/{}'.format(record.REF, record.ALT[0])
FormatMutation(record) == record.REF \o "/" \o record.ALT[1]

\* '{}:{}'.format(record.samples[0].sample, record.samples[1].sample)
FormatSamplePair(record) == record.samples[1] \o ":" \o record.samples[2]

\* list.append inside variant_summary[key][field]
AppendTo(variant_summary, key, field, v) ==
    [variant_summary EXCEPT ![key] = [@ EXCEPT ![field] = Append(@, v)]]

\* d[k] += 1 if k in d else d[k] = 1, inside variant_summary[gene]
Increment(variant_summary, gene, k) ==
    [variant_summary EXCEPT ![gene] =
        IF k \in DOMAIN @ THEN [@ EXCEPT ![k] = @ + 1] ELSE (k :> 1) @@ @]

\* the filter with one more variant class let through
RetainedFunctions_WithIntronic == {"UTR3", "UTR5", "exonic", "intronic"}

\* the filter of the two record loops: variant_function in ('UTR3', 'UTR5', 'exonic')
RetainedFunctions == {"UTR3", "UTR5", "exonic"}

\* ------------------------------------------------------ position summary
\* update_position_entry that assigns the Mutation list instead of appending
update_position_entry_OverwritesMutation(variant_summary, record, position, variant_type) ==
    LET s1 == IF position \notin DOMAIN variant_summary
              THEN (position :> [Gene |-> StrJoin(record.INFO[GENE_NAME]),
                                 Mutation |-> <<>>,
                                 Function |-> <<>>,
                                 Sample |-> <<>>]) @@ variant_summary
              ELSE variant_summary
        s2 == IF variant_type \in {"UTR3", "UTR5"}
              THEN AppendTo(s1, position, "Function", variant_type)
              ELSE IF variant_type = "exonic"
              THEN AppendTo(s1, position, "Function",
                            StrJoin(record.INFO[MUTATION_TYPE]))
              ELSE s1
        s3 == [s2 EXCEPT ![position] =
                  [@ EXCEPT !["Mutation"] = <<FormatMutation(record)>>]]
    IN  IF Len(record.samples) # 2
        THEN [summary |-> s3, raised |-> "ValueError"]
        ELSE [summary |-> AppendTo(s3, position, "Sample", FormatSamplePair(record)),
              raised |-> NoError]

\* update_position_entry that records a Function only for exonic records
update_position_entry_NoUtrFunction(variant_summary, record, position, variant_type) ==
    LET s1 == IF position \notin DOMAIN variant_summary
              THEN (position :> [Gene |-> StrJoin(record.INFO[GENE_NAME]),
                                 Mutation |-> <<>>,
                                 Function |-> <<>>,
                                 Sample |-> <<>>]) @@ variant_summary
              ELSE variant_summary
        s2 == IF variant_type = "exonic"
              THEN AppendTo(s1, position, "Function",
                            StrJoin(record.INFO[MUTATION_TYPE]))
              ELSE s1
        s3 == AppendTo(s2, position, "Mutation", FormatMutation(record))
    IN  IF Len(record.samples) # 2
        THEN [summary |-> s3, raised |-> "ValueError"]
        ELSE [summary |-> AppendTo(s3, position, "Sample", FormatSamplePair(record)),
              raised |-> NoError]

update_position_entry(variant_summary, record, position, variant_type) ==
    LET s1 == IF position \notin DOMAIN variant_summary
              THEN (position :> [Gene |-> StrJoin(record.INFO[GENE_NAME]),
                                 Mutation |-> <<>>,
                                 Function |-> <<>>,
                                 Sample |-> <<>>]) @@ variant_summary
              ELSE variant_summary
        s2 == IF variant_type \in {"UTR3", "UTR5"}
              THEN AppendTo(s1, position, "Function", variant_type)
              ELSE IF variant_type = "exonic"
              THEN AppendTo(s1, position, "Function",
                            StrJoin(record.INFO[MUTATION_TYPE]))
              ELSE s1
        s3 == AppendTo(s2, position, "Mutation", FormatMutation(record))
    IN  IF Len(record.samples) # 2
        THEN [summary |-> s3, raised |-> "ValueError"]
        ELSE [summary |-> AppendTo(s3, position, "Sample", FormatSamplePair(record)),
              raised |-> NoError]

\* one iteration of the record loop of summarize_vcf_by_position
position_loop_body(variant_summary, record) ==
    LET variant_function == StrJoin(record.INFO[VARIANT_TYPE])
    IN  IF variant_function \in RetainedFunctions
        THEN update_position_entry(variant_summary, record,
                                   FormatPosition(record), variant_function)
        ELSE [summary |-> variant_summary, raised |-> NoError]

\* ---------------------------------------------------------- gene summary
\* the filter of the SCC column with the synonymous subtype let in
SCCFilter_WithSynonymous ==
    {"nonsynonymous_SNV", "stopgain", "splicing", "synonymous_SNV"}

SCCFilter == {"nonsynonymous_SNV", "stopgain", "splicing"}

\* update_gene_entry with the sample check written as "fewer than two"
update_gene_entry_LowerBoundOnly(variant_summary, record, gene, variant_type) ==
    LET s1 == IF gene \notin DOMAIN variant_summary
              THEN (gene :> [Position |-> <<>>,
                             Mutation |-> <<>>,
                             Sample |-> <<>>,
                             SCC_samples_filtered |-> <<>>]) @@ variant_summary
              ELSE variant_summary
        mutation_type == StrJoin(record.INFO[MUTATION_TYPE])
        s2 == IF variant_type \in {"UTR3", "UTR5"}
              THEN Increment(s1, gene, variant_type)
              ELSE IF variant_type = "exonic"
              THEN Increment(s1, gene, mutation_type)
              ELSE s1
        s3 == AppendTo(s2, gene, "Position", FormatPosition(record))
        s4 == AppendTo(s3, gene, "Mutation", FormatMutation(record))
        sample == FormatSamplePair(record)
        s5 == AppendTo(s4, gene, "Sample", sample)
    IN  IF Len(record.samples) < 2
        THEN [summary |-> s4, raised |-> "ValueError"]
        ELSE [summary |-> IF variant_type = "exonic" /\ mutation_type \in SCCFilter
                          THEN AppendTo(s5, gene, "SCC_samples_filtered", sample)
                          ELSE s5,
              raised |-> NoError]

update_gene_entry(variant_summary, record, gene, variant_type) ==
    LET s1 == IF gene \notin DOMAIN variant_summary
              THEN (gene :> [Position |-> <<>>,
                             Mutation |-> <<>>,
                             Sample |-> <<>>,
                             SCC_samples_filtered |-> <<>>]) @@ variant_summary
              ELSE variant_summary
        mutation_type == StrJoin(record.INFO[MUTATION_TYPE])
        s2 == IF variant_type \in {"UTR3", "UTR5"}
              THEN Increment(s1, gene, variant_type)
              ELSE IF variant_type = "exonic"
              THEN Increment(s1, gene, mutation_type)
              ELSE s1
        s3 == AppendTo(s2, gene, "Position", FormatPosition(record))
        s4 == AppendTo(s3, gene, "Mutation", FormatMutation(record))
        sample == FormatSamplePair(record)
        s5 == AppendTo(s4, gene, "Sample", sample)
    IN  IF Len(record.samples) # 2
        THEN [summary |-> s4, raised |-> "ValueError"]
        ELSE [summary |-> IF variant_type = "exonic" /\ mutation_type \in SCCFilter
                          THEN AppendTo(s5, gene, "SCC_samples_filtered", sample)
                          ELSE s5,
              raised |-> NoError]

\* one iteration of the record loop of summarize_vcf_by_gene
gene_loop_body(variant_summary, record) ==
    LET variant_function == StrJoin(record.INFO[VARIANT_TYPE])
    IN  IF variant_function \in RetainedFunctions
        THEN update_gene_entry(variant_summary, record,
                               StrJoin(record.INFO[GENE_NAME]), variant_function)
        ELSE [summary |-> variant_summary, raised |-> NoError]

required_entries ==
    <<"UTR3", "UTR5",
      "frameshift_deletion", "frameshift_insertion",
      "nonframeshift_deletion", "nonframeshift_insertion",
      "nonframeshift_substitution", "nonsynonymous_SNV", "stopgain",
      "stoploss", "synonymous_SNV", "unknown">>

\* add_missing_gene_entries whose loop stops one entry short of the list
add_missing_gene_entries_SkipsLast(variant_summary) ==
    LET required == {required_entries[i] : i \in 1..(Len(required_entries) - 1)}
    IN  [gene \in DOMAIN variant_summary |->
            [entry \in DOMAIN variant_summary[gene] \cup required |->
                IF entry \in DOMAIN variant_summary[gene]
                THEN variant_summary[gene][entry]
                ELSE 0]]

\* add_missing_gene_entries without the "not in" test: every pass sets the
\* required entries to 0
add_missing_gene_entries_Resets(variant_summary) ==
    LET required == {required_entries[i] : i \in DOMAIN required_entries}
    IN  [gene \in DOMAIN variant_summary |->
            [entry \in DOMAIN variant_summary[gene] \cup required |->
                IF entry \in required
                THEN 0
                ELSE variant_summary[gene][entry]]]

add_missing_gene_entries(variant_summary) ==
    LET required == {required_entries[i] : i \in DOMAIN required_entries}
    IN  [gene \in DOMAIN variant_summary |->
            [entry \in DOMAIN variant_summary[gene] \cup required |->
                IF entry \in DOMAIN variant_summary[gene]
                THEN variant_summary[gene][entry]
                ELSE 0]]

\* ---------------------------------------------------------- table builder
NaN == "NaN"

\* set(seq)
PySet(seq) == {seq[i] : i \in DOMAIN seq}

\* int column / int column, element-wise, as pandas divides (no exception)
FloatDiv(n, d) ==
    IF d # 0 THEN [kind |-> "finite", num |-> n, den |-> d]
    ELSE IF n # 0 THEN [kind |-> "inf", num |-> n, den |-> d]
    ELSE [kind |-> "nan", num |-> n, den |-> d]

\* the sample count taken as the length of the list, without set()
NumberOfSCCs_Length(row) == Len(row["Sample"])

NumberOfSCCs(row) == Cardinality(PySet(row["Sample"]))
NonSyn(row) == FloatDiv(row["nonsynonymous_SNV"], row["synonymous_SNV"])
NumberOfSCCs_filtered(row) == Cardinality(PySet(row["SCC_samples_filtered"]))

build_summary_table(variant_summary, summary_type) ==
    LET columns == UNION {DOMAIN variant_summary[k] : k \in DOMAIN variant_summary}
        \* pd.DataFrame.from_dict(variant_summary, orient='index')
        df == [k \in DOMAIN variant_summary |->
                 [c \in columns |-> IF c \in DOMAIN variant_summary[k]
                                    THEN variant_summary[k][c] ELSE NaN]]
        df1 == [k \in DOMAIN df |-> ("NumberOfSCCs" :> NumberOfSCCs(df[k])) @@ df[k]]
        df2 == [k \in DOMAIN df1 |-> ("Non/Syn" :> NonSyn(df1[k])) @@ df1[k]]
        df3 == [k \in DOMAIN df2 |->
                  ("NumberOfSCCs_filtered" :> NumberOfSCCs_filtered(df2[k])) @@ df2[k]]
        KeyError == [table |-> None, raised |-> "KeyError"]
    IN  IF "Sample" \notin columns THEN KeyError
        ELSE IF summary_type = "gene"
        THEN IF {"nonsynonymous_SNV", "synonymous_SNV", "SCC_samples_filtered"}
                    \subseteq columns
             THEN [table |-> Some([index_name |-> "Gene", rows |-> df3]),
                   raised |-> NoError]
             ELSE KeyError
        ELSE IF summary_type = "coordinate"
        THEN [table |-> Some([index_name |-> "Coordinate", rows |-> df1]),
              raised |-> NoError]
        ELSE [table |-> None, raised |-> "ValueError"]

\* ------------------------------------------------------------ input files
\* os.path.join(directory, f) for a relative f and a directory without a
\* trailing separator
os_path_join(directory, f) == directory \o "/" \o f

\* A line of the list file as readlines() returns it is text \o eol;
\* rstrip('\n') leaves the text (which holds no newline itself).
RStripNewline(line) == line.text

read_input_file(lines, directory) ==
    LET files == [i \in DOMAIN lines |-> RStripNewline(lines[i])]
    IN  IF directory # None
        THEN [i \in DOMAIN files |-> os_path_join(directory[1], files[i])]
        ELSE files

\* ------------------------------------------------------------ input space
Info(gene, func, exonicFunc) ==
    (GENE_NAME :> <<gene>>) @@ (VARIANT_TYPE :> <<func>>)
        @@ (MUTATION_TYPE :> <<exonicFunc>>)

VcfRecord(chrom, pos, ref, alt, info, samples) ==
    [CHROM |-> chrom, POS |-> pos, REF |-> ref, ALT |-> <<alt>>,
     INFO |-> info, samples |-> samples]

Records ==
    { VcfRecord("1", 100, "A", "T", Info("TP53", "exonic", "nonsynonymous_SNV"),
                <<"T1", "N1">>),
      VcfRecord("1", 100, "A", "G", Info("TP53", "exonic", "synonymous_SNV"),
                <<"T2", "N2">>),
      VcfRecord("2", 200, "C", "T", Info("KRAS", "UTR3", "."),
                <<"T1", "N1">>),
      VcfRecord("1", 100, "G", "C", Info("TP53", "intronic", "."),
                <<"T1", "N1">>),
      VcfRecord("1", 100, "A", "T", Info("TP53", "exonic", "stopgain"),
                <<"T1", "N1", "X1">>),
      VcfRecord("2", 200, "C", "T", Info("KRAS", "UTR5", "."),
                <<"T1">>) }

\* the ways to cut n records into m consecutive files: cut[i] is the number
\* of records in the files 1..i
Cuts(m, n) ==
    IF m = 0 THEN (IF n = 0 THEN {<<>>} ELSE {})
    ELSE {cut \in [1..m -> 0..n] :
            /\ cut[m] = n
            /\ \A i \in 1..(m - 1) : cut[i] <= cut[i + 1]}

\* the records of the i-th file under a cut, in file order
FileContents(recs, cut, i) ==
    SubSeq(recs, (IF i = 1 THEN 0 ELSE cut[i - 1]) + 1, cut[i])

\* the files without a record under a cut: those may also not exist at all
EmptyFiles(recs, cut) ==
    {i \in DOMAIN cut : FileContents(recs, cut, i) = <<>>}

\* per listed file: None (the file does not exist) or Some(its records)
FileList(recs, cut, missing) ==
    [i \in DOMAIN cut |-> IF i \in missing THEN None
                          ELSE Some(FileContents(recs, cut, i))]

FileName(i) == "f" \o ToString(i) \o ".vcf"

Argvs == [input_file : {None, Some("vcfs.txt")},
          directory : {None, Some("data")},
          output_file : {None, Some("out")}]

\* where the i-th listed file is looked up under the given command line
FilePath(a, i) ==
    IF a.directory = None THEN FileName(i)
    ELSE os_path_join(a.directory[1], FileName(i))

\* ------------------------------------------------------------------ state
VARIABLES
    argv,                       \* command line: each option None or [value]
    listing,                    \* lines of the input list file
    disk,                       \* path -> records of the VCF at that path
    pc,                         \* position in main()
    args,                       \* dict returned by parseArgs
    vcfs,                       \* list returned by read_input_file
    file_index,                 \* position of the vcfs loop (1-based)
    record_index,               \* position of the record loop (1-based)
    gene_summary,
    coordinate_summary,
    gene_summary_table,
    coordinate_summary_table,
    written,                    \* csv files written, in order
    raised,                     \* exception that ended the run, or NoError
    last_summary_type,               \* argument of the latest build_summary_table call
    previous_call               \* arguments and result of an earlier
                                \* summarize_by_position call of the same process

vars == <<argv, listing, disk, pc, args, vcfs, file_index, record_index,
          gene_summary, coordinate_summary, gene_summary_table,
          coordinate_summary_table, written, raised, last_summary_type,
          previous_call>>

inputs == <<argv, listing, disk>>
calls == <<last_summary_type, previous_call>>

EmptyDict == [k \in {} |-> 0]

\* the command line, the list file and the VCFs it names
Environment(a, contents) ==
    /\ argv = a
    /\ listing = [i \in DOMAIN contents |-> [text |-> FileName(i), eol |-> "\n"]]
    /\ disk = [p \in {FilePath(a, i) : i \in {j \in DOMAIN contents : contents[j] # None}}
                 |-> LET i == CHOOSE j \in DOMAIN contents : FilePath(a, j) = p
                     IN  contents[i][1]]

\* at most MaxFiles listed files holding at most MaxRecs records in all
SomeEnvironment(a) ==
    \E m \in 0..MaxFiles, n \in 0..MaxRecs :
        \E recs \in [1..n -> Records], cut \in Cuts(m, n) :
            \E missing \in SUBSET EmptyFiles(recs, cut) :
                Environment(a, FileList(recs, cut, missing))

Init ==
    /\ \E a \in Argvs : SomeEnvironment(a)
    /\ pc = "parseArgs"
    /\ args = None
    /\ vcfs = <<>>
    /\ file_index = 1
    /\ record_index = 1
    /\ gene_summary = EmptyDict
    /\ coordinate_summary = EmptyDict
    /\ gene_summary_table = None
    /\ coordinate_summary_table = None
    /\ written = <<>>
    /\ raised = NoError
    /\ last_summary_type = None
    /\ previous_call = None

\* an uncaught exception ends the process
Fail(exception) ==
    /\ raised' = exception
    /\ pc' = "failed"

\* ------------------------------------------------------------------- main
parseArgs ==
    /\ pc = "parseArgs"
    /\ IF None \in {argv.input_file, argv.output_file}
       THEN Fail("ValueError") /\ UNCHANGED args
       ELSE IF argv.directory = None
       THEN Fail("TypeError") /\ UNCHANGED args      \* ''.join(None)
       ELSE /\ args' = Some([input_file |-> StrJoin(argv.input_file),
                             output_file |-> StrJoin(argv.output_file),
                             directory |-> StrJoin(argv.directory)])
            /\ pc' = "read_input_file"
            /\ UNCHANGED raised
    /\ UNCHANGED <<inputs, calls, vcfs, file_index, record_index, gene_summary,
                   coordinate_summary, gene_summary_table,
                   coordinate_summary_table, written>>

ReadInputFile ==
    /\ pc = "read_input_file"
    /\ vcfs' = read_input_file(listing, Some(args[1].directory))
    /\ file_index' = 1
    /\ pc' = "summarize_by_gene"
    /\ UNCHANGED <<inputs, calls, args, record_index, gene_summary, coordinate_summary,
                   gene_summary_table, coordinate_summary_table, written, raised>>

\* summarize_vcf_by_gene: open the next file of the list
GeneOpen ==
    /\ pc = "summarize_by_gene"
    /\ file_index <= Len(vcfs)
    /\ IF vcfs[file_index] \in DOMAIN disk
       THEN pc' = "gene_records" /\ record_index' = 1 /\ UNCHANGED raised
       ELSE Fail("FileNotFoundError") /\ UNCHANGED record_index
    /\ UNCHANGED <<inputs, calls, args, vcfs, file_index, gene_summary, coordinate_summary,
                   gene_summary_table, coordinate_summary_table, written>>

\* summarize_vcf_by_gene: one record of the open file
GeneRecord ==
    /\ pc = "gene_records"
    /\ record_index <= Len(disk[vcfs[file_index]])
    /\ LET r == gene_loop_body(gene_summary, disk[vcfs[file_index]][record_index])
       IN  /\ gene_summary' = r.summary
           /\ IF r.raised = NoError
              THEN record_index' = record_index + 1 /\ UNCHANGED <<pc, raised>>
              ELSE Fail(r.raised) /\ UNCHANGED record_index
    /\ UNCHANGED <<inputs, calls, args, vcfs, file_index, coordinate_summary,
                   gene_summary_table, coordinate_summary_table, written>>

\* summarize_vcf_by_gene: end of the record loop, back-fill, next file
GeneFileEnd ==
    /\ pc = "gene_records"
    /\ record_index > Len(disk[vcfs[file_index]])
    /\ gene_summary' = add_missing_gene_entries(gene_summary)
    /\ file_index' = file_index + 1
    /\ pc' = "summarize_by_gene"
    /\ UNCHANGED <<inputs, calls, args, vcfs, record_index, coordinate_summary,
                   gene_summary_table, coordinate_summary_table, written, raised>>

BuildGeneTable ==
    /\ pc = "summarize_by_gene"
    /\ file_index > Len(vcfs)
    /\ last_summary_type' = Some("gene")
    /\ LET r == build_summary_table(gene_summary, "gene")
       IN  /\ gene_summary_table' = r.table
           /\ IF r.raised = NoError
              THEN pc' = "write_gene" /\ UNCHANGED raised
              ELSE Fail(r.raised)
    /\ UNCHANGED <<inputs, previous_call, args, vcfs, file_index, record_index, gene_summary,
                   coordinate_summary, coordinate_summary_table, written>>

WriteGeneTable ==
    /\ pc = "write_gene"
    /\ written' = Append(written, args[1].output_file \o "_" \o "GENE" \o ".csv")
    /\ file_index' = 1
    /\ pc' = "summarize_by_position"
    /\ UNCHANGED <<inputs, calls, args, vcfs, record_index, gene_summary,
                   coordinate_summary, gene_summary_table,
                   coordinate_summary_table, raised>>

PositionOpen ==
    /\ pc = "summarize_by_position"
    /\ file_index <= Len(vcfs)
    /\ IF vcfs[file_index] \in DOMAIN disk
       THEN pc' = "position_records" /\ record_index' = 1 /\ UNCHANGED raised
       ELSE Fail("FileNotFoundError") /\ UNCHANGED record_index
    /\ UNCHANGED <<inputs, calls, args, vcfs, file_index, gene_summary, coordinate_summary,
                   gene_summary_table, coordinate_summary_table, written>>

PositionRecord ==
    /\ pc = "position_records"
    /\ record_index <= Len(disk[vcfs[file_index]])
    /\ LET r == position_loop_body(coordinate_summary,
                                   disk[vcfs[file_index]][record_index])
       IN  /\ coordinate_summary' = r.summary
           /\ IF r.raised = NoError
              THEN record_index' = record_index + 1 /\ UNCHANGED <<pc, raised>>
              ELSE Fail(r.raised) /\ UNCHANGED record_index
    /\ UNCHANGED <<inputs, calls, args, vcfs, file_index, gene_summary,
                   gene_summary_table, coordinate_summary_table, written>>

PositionFileEnd ==
    /\ pc = "position_records"
    /\ record_index > Len(disk[vcfs[file_index]])
    /\ file_index' = file_index + 1
    /\ pc' = "summarize_by_position"
    /\ UNCHANGED <<inputs, calls, args, vcfs, record_index, gene_summary,
                   coordinate_summary, gene_summary_table,
                   coordinate_summary_table, written, raised>>

BuildCoordinateTable ==
    /\ pc = "summarize_by_position"
    /\ file_index > Len(vcfs)
    /\ last_summary_type' = Some("coordinate")
    /\ LET r == build_summary_table(coordinate_summary, "coordinate")
       IN  /\ coordinate_summary_table' = r.table
           /\ IF r.raised = NoError
              THEN pc' = "write_coordinate" /\ UNCHANGED raised
              ELSE Fail(r.raised)
    /\ UNCHANGED <<inputs, previous_call, args, vcfs, file_index, record_index, gene_summary,
                   coordinate_summary, gene_summary_table, written>>

WriteCoordinateTable ==
    /\ pc = "write_coordinate"
    /\ written' = Append(written, args[1].output_file \o "_" \o "COORDINATE" \o ".csv")
    /\ pc' = "done"
    /\ UNCHANGED <<inputs, calls, args, vcfs, file_index, record_index, gene_summary,
                   coordinate_summary, gene_summary_table,
                   coordinate_summary_table, raised>>

Next ==
    \/ parseArgs
    \/ ReadInputFile
    \/ GeneOpen
    \/ GeneRecord
    \/ GeneFileEnd
    \/ BuildGeneTable
    \/ WriteGeneTable
    \/ PositionOpen
    \/ PositionRecord
    \/ PositionFileEnd
    \/ BuildCoordinateTable
    \/ WriteCoordinateTable

Spec == Init /\ [][Next]_vars

\* ------------------------------------------------- the functions as a library
\* A caller other than main (as test() does for one file): it calls
\* summarize_by_gene or summarize_by_position on a list of paths, then either
\* hands the returned mapping to build_summary_table with a summary_type of
\* its choice, or calls summarize_by_position again on the same paths in
\* another order.
SummaryTypes == {"gene", "coordinate", "sample"}

InitLib ==
    /\ LET a == [input_file |-> Some("vcfs.txt"), directory |-> Some("data"),
                 output_file |-> Some("out")]
       IN  /\ SomeEnvironment(a)
           /\ vcfs = [i \in DOMAIN listing |-> FilePath(a, i)]
    /\ pc \in {"summarize_by_gene", "summarize_by_position"}
    /\ args = None
    /\ file_index = 1
    /\ record_index = 1
    /\ gene_summary = EmptyDict
    /\ coordinate_summary = EmptyDict
    /\ gene_summary_table = None
    /\ coordinate_summary_table = None
    /\ written = <<>>
    /\ raised = NoError
    /\ last_summary_type = None
    /\ previous_call = None

CallBuildSummaryTable ==
    /\ pc \in {"summarize_by_gene", "summarize_by_position"}
    /\ file_index > Len(vcfs)
    /\ previous_call = None
    /\ \E kind \in SummaryTypes :
         LET r == build_summary_table(IF pc = "summarize_by_gene"
                                      THEN gene_summary ELSE coordinate_summary,
                                      kind)
         IN  /\ last_summary_type' = Some(kind)
             /\ IF pc = "summarize_by_gene"
                THEN gene_summary_table' = r.table /\ UNCHANGED coordinate_summary_table
                ELSE coordinate_summary_table' = r.table /\ UNCHANGED gene_summary_table
             /\ IF r.raised = NoError
                THEN pc' = "returned" /\ UNCHANGED raised
                ELSE Fail(r.raised)
    /\ UNCHANGED <<inputs, previous_call, args, vcfs, file_index, record_index,
                   gene_summary, coordinate_summary, written>>

CallSummarizeByPositionAgain ==
    /\ pc = "summarize_by_position"
    /\ file_index > Len(vcfs)
    /\ previous_call = None
    /\ \E order \in Permutations(DOMAIN vcfs) :
         vcfs' = [i \in DOMAIN vcfs |-> vcfs[order[i]]]
    /\ previous_call' = Some([vcfs |-> vcfs, summary |-> coordinate_summary])
    /\ coordinate_summary' = EmptyDict
    /\ file_index' = 1
    /\ UNCHANGED <<inputs, last_summary_type, pc, args, record_index, gene_summary,
                   gene_summary_table, coordinate_summary_table, written, raised>>

NextLib ==
    \/ GeneOpen
    \/ GeneRecord
    \/ GeneFileEnd
    \/ PositionOpen
    \/ PositionRecord
    \/ PositionFileEnd
    \/ CallBuildSummaryTable
    \/ CallSummarizeByPositionAgain

SpecLib == InitLib /\ [][NextLib]_vars

\* ================================================================ properties
\* vocabulary of the statements below, written from the record format
IsRetained(record) ==
    record.INFO[VARIANT_TYPE] \in {<<"exonic">>, <<"UTR3">>, <<"UTR5">>}

IsMalformed(record) == Len(record.samples) # 2

\* some listed file that exists holds a retained record without exactly two samples
InputHasMalformedRetained ==
    \E p \in DOMAIN disk : \E i \in DOMAIN disk[p] :
        IsRetained(disk[p][i]) /\ IsMalformed(disk[p][i])

\* the record the open record loop is about to take
AtRecord == pc \in {"gene_records", "position_records"}
              /\ record_index <= Len(disk[vcfs[file_index]])
CurrentRecord == disk[vcfs[file_index]][record_index]

\* C1: when some retained record of some listed file does not carry exactly
\* two samples, the driver never completes and never writes an output file,
\* and the only way the run ends is by an uncaught exception.
C1_MalformedAbortsWithoutOutput ==
    InputHasMalformedRetained =>
        /\ written = <<>>
        /\ pc \notin {"write_gene", "write_coordinate", "done"}
        /\ (~ ENABLED Next) => (pc = "failed" /\ raised # NoError)

\* C1 witness: the run aborted on a malformed record that is the second
\* record of the second file, after well-formed records were aggregated.
C1_Witness ==
    /\ InputHasMalformedRetained
    /\ pc = "failed"
    /\ raised = "ValueError"
    /\ file_index = 2
    /\ record_index = 2
    /\ IsMalformed(disk[vcfs[2]][2])
    /\ written = <<>>

\* C2: a record step that is handed a retained record without exactly two
\* samples leaves the summary mapping of its pass as it was before the call
\* (no new key, no appended element, no incremented count).
C2_MalformedLeavesSummaryUnchanged ==
    [][(AtRecord /\ IsRetained(CurrentRecord) /\ IsMalformed(CurrentRecord)) =>
          /\ pc = "gene_records" => gene_summary' = gene_summary
          /\ pc = "position_records" => coordinate_summary' = coordinate_summary]_vars

\* some file named in the list file does not exist
SomeListedFileMissing ==
    \E i \in DOMAIN listing : FilePath(argv, i) \notin DOMAIN disk

\* C3: when some listed file does not exist, the run fails on it before
\* aggregation starts: at the moment the missing file raises, no record of any
\* listed file has been folded into a summary mapping.
C3_MissingFileBeforeAggregation ==
    (SomeListedFileMissing /\ raised = "FileNotFoundError") =>
        (gene_summary = EmptyDict /\ coordinate_summary = EmptyDict)

\* the 12 fixed vocabulary keys of a gene entry
GeneVocabulary ==
    {"UTR3", "UTR5", "frameshift_deletion", "frameshift_insertion",
     "nonframeshift_deletion", "nonframeshift_insertion",
     "nonframeshift_substitution", "nonsynonymous_SNV", "stopgain", "stoploss",
     "synonymous_SNV", "unknown"}

\* summarize_by_gene has returned to main
GenePassReturned ==
    \/ pc = "summarize_by_gene" /\ file_index > Len(vcfs)
    \/ pc \in {"write_gene", "summarize_by_position", "position_records",
               "write_coordinate", "done"}

\* C4: once summarize_by_gene has returned, every gene entry holds each of the
\* 12 vocabulary keys with a non-negative integer value.
C4_GeneEntriesComplete ==
    GenePassReturned =>
        \A gene \in DOMAIN gene_summary : \A k \in GeneVocabulary :
            /\ k \in DOMAIN gene_summary[gene]
            /\ gene_summary[gene][k] \in Nat

\* C4 witness: the gene pass returned two genes; TP53 counted two records of
\* one subtype and holds a back-filled zero for another.
C4_Witness ==
    /\ GenePassReturned
    /\ DOMAIN gene_summary = {"TP53", "KRAS"}
    /\ gene_summary["TP53"]["nonsynonymous_SNV"] = 2
    /\ gene_summary["TP53"]["UTR3"] = 0
    /\ gene_summary["KRAS"]["UTR3"] = 1

\* number of distinct elements of a sequence: its first occurrences
DistinctCount(seq) ==
    Cardinality({i \in DOMAIN seq : \A j \in 1..(i - 1) : seq[j] # seq[i]})

\* C5: in every table built, the NumberOfSCCs of a key is the number of
\* distinct strings of the key's Sample sequence, and in a gene table
\* NumberOfSCCs_filtered is the number of distinct strings of the key's
\* SCC_samples_filtered sequence.
C5_SampleCountsAreDistinctCounts ==
    /\ gene_summary_table # None =>
         LET rows == gene_summary_table[1].rows
         IN  /\ DOMAIN rows = DOMAIN gene_summary
             /\ \A k \in DOMAIN rows :
                  /\ rows[k]["NumberOfSCCs"] = DistinctCount(gene_summary[k]["Sample"])
                  /\ rows[k]["NumberOfSCCs_filtered"]
                       = DistinctCount(gene_summary[k]["SCC_samples_filtered"])
    /\ coordinate_summary_table # None =>
         LET rows == coordinate_summary_table[1].rows
         IN  /\ DOMAIN rows = DOMAIN coordinate_summary
             /\ \A k \in DOMAIN rows :
                  rows[k]["NumberOfSCCs"] = DistinctCount(coordinate_summary[k]["Sample"])

\* C5 witness: both tables are built and the same sample pair was recorded
\* twice for a gene and for a coordinate, so the count is below the length.
C5_Witness ==
    /\ pc = "done"
    /\ gene_summary_table # None
    /\ coordinate_summary_table # None
    /\ "TP53" \in DOMAIN gene_summary
    /\ "1_100" \in DOMAIN coordinate_summary
    /\ Len(gene_summary["TP53"]["Sample"]) = 3
    /\ Len(gene_summary["TP53"]["SCC_samples_filtered"]) = 2
    /\ gene_summary_table[1].rows["TP53"]["NumberOfSCCs"] = 2
    /\ gene_summary_table[1].rows["TP53"]["NumberOfSCCs_filtered"] = 1
    /\ Len(coordinate_summary["1_100"]["Sample"]) = 3
    /\ coordinate_summary_table[1].rows["1_100"]["NumberOfSCCs"] = 2

\* C7: a record step on a record whose variant class is not exonic, UTR3 or
\* UTR5 changes neither the gene summary nor the position summary.
C7_SkippedRecordChangesNothing ==
    [][(AtRecord /\ ~ IsRetained(CurrentRecord)) =>
          (gene_summary' = gene_summary /\ coordinate_summary' = coordinate_summary)]_vars

\* C7 witness: the position pass has just stepped over an intronic record
\* that is the first record of the second file, with the summary of the
\* first file in hand (the gene pass stepped over the same record before).
C7_Witness ==
    /\ pc = "position_records"
    /\ file_index = 2
    /\ record_index = 2
    /\ ~ IsRetained(disk[vcfs[2]][1])
    /\ Len(disk[vcfs[2]]) = 2
    /\ DOMAIN coordinate_summary # {}
    /\ DOMAIN gene_summary # {}

\* C9: with an input list and an output base name on the command line,
\* argument parsing succeeds whether or not the directory option is given;
\* the listed names are then used as they are when it is omitted, and
\* prefixed with the directory when it is given.
C9_DirectoryOptional ==
    (argv.input_file # None /\ argv.output_file # None /\ pc # "parseArgs") =>
        /\ args # None
        /\ pc # "read_input_file" =>
             /\ Len(vcfs) = Len(listing)
             /\ \A i \in DOMAIN listing :
                  vcfs[i] = IF argv.directory = None
                            THEN listing[i].text
                            ELSE argv.directory[1] \o "/" \o listing[i].text

RECURSIVE Flatten(_)
Flatten(files) ==
    IF files = <<>> THEN <<>> ELSE disk[Head(files)] \o Flatten(Tail(files))

\* the retained records of the listed files, by file list order and then by
\* order within the file
RetainedRecords == SelectSeq(Flatten(vcfs), IsRetained)

CoordinateOf(record) == record.CHROM \o "_" \o ToString(record.POS)

RetainedAt(key) ==
    SelectSeq(RetainedRecords, LAMBDA r : CoordinateOf(r) = key)

\* summarize_by_position has returned to main
PositionPassReturned ==
    \/ pc = "summarize_by_position" /\ file_index > Len(vcfs)
    \/ pc \in {"write_coordinate", "done"}

\* C10: once summarize_by_position has returned, the keys are the coordinates
\* of the retained records, and at every key the Mutation, Function and
\* Sample sequences have one element per retained record of that coordinate,
\* the i-th of each taken from the i-th such record in file list order and
\* then record order.
C10_PositionSequencesParallel ==
    PositionPassReturned =>
        /\ DOMAIN coordinate_summary
             = {CoordinateOf(RetainedRecords[i]) : i \in DOMAIN RetainedRecords}
        /\ \A key \in DOMAIN coordinate_summary :
             LET recs == RetainedAt(key)
                 entry == coordinate_summary[key]
             IN  /\ Len(entry.Mutation) = Len(recs)
                 /\ Len(entry.Function) = Len(recs)
                 /\ Len(entry.Sample) = Len(recs)
                 /\ \A i \in DOMAIN recs :
                      /\ entry.Mutation[i] = recs[i].REF \o "/" \o recs[i].ALT[1]
                      /\ entry.Function[i] =
                           IF recs[i].INFO[VARIANT_TYPE] = <<"exonic">>
                           THEN recs[i].INFO[MUTATION_TYPE][1]
                           ELSE recs[i].INFO[VARIANT_TYPE][1]
                      /\ entry.Sample[i] =
                           recs[i].samples[1] \o ":" \o recs[i].samples[2]

\* C10 witness: two files with one record each at the same coordinate were
\* merged into one entry of length 2 in file order, next to a UTR3 entry.
C10_Witness ==
    /\ PositionPassReturned
    /\ Len(vcfs) = 2
    /\ DOMAIN coordinate_summary = {"1_100", "2_200"}
    /\ coordinate_summary["1_100"].Mutation = <<"A/G", "A/T">>
    /\ coordinate_summary["1_100"].Function = <<"synonymous_SNV", "nonsynonymous_SNV">>
    /\ coordinate_summary["1_100"].Sample = <<"T2:N2", "T1:N1">>
    /\ coordinate_summary["2_200"].Function = <<"UTR3">>

\* the second summarize_by_position call of the library caller has returned
SecondCallReturned ==
    /\ previous_call # None
    /\ pc = "summarize_by_position"
    /\ file_index > Len(vcfs)

Occurrences(seq, v) == Cardinality({i \in DOMAIN seq : seq[i] = v})

SameMultiset(a, b) ==
    \A v \in {a[i] : i \in DOMAIN a} \cup {b[i] : i \in DOMAIN b} :
        Occurrences(a, v) = Occurrences(b, v)

\* C6: summarize_by_position on two orderings of the same well-formed files
\* returns the same set of coordinate keys and, at every key, the same
\* multiset of Mutation strings.
C6_PositionOrderIndependent ==
    SecondCallReturned =>
        LET first == previous_call[1].summary
        IN  /\ DOMAIN first = DOMAIN coordinate_summary
            /\ \A key \in DOMAIN first :
                 SameMultiset(first[key].Mutation, coordinate_summary[key].Mutation)

\* C6 witness: both calls returned, the second on another ordering, and the
\* Mutation sequence of coordinate 1_100 holds three strings in two orders.
C6_Witness ==
    /\ SecondCallReturned
    /\ vcfs # previous_call[1].vcfs
    /\ "1_100" \in DOMAIN coordinate_summary
    /\ Len(coordinate_summary["1_100"].Mutation) = 3
    /\ coordinate_summary["1_100"].Mutation # previous_call[1].summary["1_100"].Mutation

\* C8: build_summary_table called with a summary_type other than gene or
\* coordinate fails with the ValueError of its last branch and returns no
\* table, whatever mapping it is given.
C8_InvalidKindRaisesValueError ==
    (last_summary_type # None /\ last_summary_type[1] \notin {"gene", "coordinate"}) =>
        /\ pc = "failed"
        /\ raised = "ValueError"
        /\ gene_summary_table = None
        /\ coordinate_summary_table = None

\* the tag a retained record is counted under: its UTR class, or its
\* mutation subtype when it is exonic
TagOf(record) ==
    IF record.INFO[VARIANT_TYPE] = <<"exonic">>
    THEN record.INFO[MUTATION_TYPE][1]
    ELSE record.INFO[VARIANT_TYPE][1]

GeneOf(record) == record.INFO[GENE_NAME][1]

\* the retained records of a gene over all listed files, in encounter order
RetainedOf(gene) == SelectSeq(RetainedRecords, LAMBDA r : GeneOf(r) = gene)

\* the keys of a gene entry that hold sequences; every other key is a count
SequenceKeys == {"Position", "Mutation", "Sample", "SCC_samples_filtered"}

RECURSIVE SumOf(_, _)
SumOf(entry, keys) ==
    IF keys = {} THEN 0
    ELSE LET k == CHOOSE x \in keys : TRUE
         IN  entry[k] + SumOf(entry, keys \ {k})

\* C11: once summarize_by_gene has returned, the genes are those of the
\* retained records, every count key of a gene holds the number of the gene's
\* retained records over all files carrying that tag (0 for a vocabulary key
\* no record carries), every tag that occurs is a key, and the counts of a
\* gene add up to the length of its Position sequence.
C11_GeneCountsMatchRecords ==
    GenePassReturned =>
        /\ DOMAIN gene_summary
             = {GeneOf(RetainedRecords[i]) : i \in DOMAIN RetainedRecords}
        /\ \A gene \in DOMAIN gene_summary :
             LET recs == RetainedOf(gene)
                 entry == gene_summary[gene]
                 tags == {TagOf(recs[i]) : i \in DOMAIN recs}
                 countKeys == DOMAIN entry \ SequenceKeys
             IN  /\ tags \cup GeneVocabulary \subseteq countKeys
                 /\ \A t \in countKeys :
                      entry[t] = Cardinality({i \in DOMAIN recs : TagOf(recs[i]) = t})
                 /\ SumOf(entry, countKeys) = Len(entry["Position"])
                 /\ Len(entry["Position"]) = Len(recs)

\* C11 witness: TP53 got a nonsynonymous record from the first file, was
\* back-filled at the end of that file, and then got a synonymous record
\* from the second file, so a back-filled 0 was incremented.
C11_Witness ==
    /\ GenePassReturned
    /\ Len(vcfs) = 2
    /\ Len(disk[vcfs[1]]) >= 1
    /\ \A i \in DOMAIN disk[vcfs[1]] :
         /\ GeneOf(disk[vcfs[1]][i]) = "TP53"
         /\ IsRetained(disk[vcfs[1]][i])
         /\ TagOf(disk[vcfs[1]][i]) = "nonsynonymous_SNV"
    /\ \E i \in DOMAIN disk[vcfs[2]] :
         /\ GeneOf(disk[vcfs[2]][i]) = "TP53"
         /\ TagOf(disk[vcfs[2]][i]) = "synonymous_SNV"
    /\ "TP53" \in DOMAIN gene_summary
    /\ gene_summary["TP53"]["synonymous_SNV"] >= 1
    /\ gene_summary["TP53"]["nonsynonymous_SNV"] >= 1
    /\ Len(gene_summary["TP53"]["Position"]) = 3

\* a is b with some elements left out, order kept
RECURSIVE IsSubsequence(_, _)
IsSubsequence(a, b) ==
    IF a = <<>> THEN TRUE
    ELSE IF b = <<>> THEN FALSE
    ELSE IF Head(a) = Head(b) THEN IsSubsequence(Tail(a), Tail(b))
    ELSE IsSubsequence(a, Tail(b))

\* the records the SCC column counts: exonic with one of three subtypes
IsSCCRecord(record) ==
    /\ record.INFO[VARIANT_TYPE] = <<"exonic">>
    /\ record.INFO[MUTATION_TYPE] \in
         {<<"nonsynonymous_SNV">>, <<"stopgain">>, <<"splicing">>}

SamplePairOf(record) == record.samples[1] \o ":" \o record.samples[2]

\* C12: SCC_samples_filtered of a gene is always a sub-sequence of the gene's
\* Sample sequence, and once summarize_by_gene has returned it holds exactly
\* the sample-pair strings of the gene's exonic records of subtype
\* nonsynonymous_SNV, stopgain or splicing, one per record in encounter order
\* (none for UTR3/UTR5 records and for exonic records of another subtype).
C12_FilteredSamplesAreSCCRecords ==
    /\ \A gene \in DOMAIN gene_summary :
         IsSubsequence(gene_summary[gene]["SCC_samples_filtered"],
                       gene_summary[gene]["Sample"])
    /\ GenePassReturned =>
         \A gene \in DOMAIN gene_summary :
            LET counted == SelectSeq(RetainedOf(gene), IsSCCRecord)
                all == RetainedOf(gene)
            IN  /\ gene_summary[gene]["SCC_samples_filtered"]
                     = [i \in DOMAIN counted |-> SamplePairOf(counted[i])]
                /\ gene_summary[gene]["Sample"]
                     = [i \in DOMAIN all |-> SamplePairOf(all[i])]

\* C12 witness: TP53 holds a synonymous record followed by a nonsynonymous
\* one, KRAS holds a UTR3 record; only the nonsynonymous record's sample pair
\* is in a filtered sequence.
C12_Witness ==
    /\ GenePassReturned
    /\ DOMAIN gene_summary = {"TP53", "KRAS"}
    /\ gene_summary["TP53"]["Sample"] = <<"T2:N2", "T1:N1">>
    /\ gene_summary["TP53"]["SCC_samples_filtered"] = <<"T1:N1">>
    /\ gene_summary["KRAS"]["Sample"] = <<"T1:N1">>
    /\ gene_summary["KRAS"]["SCC_samples_filtered"] = <<>>
====
